---------------------------- MODULE Spec2Model ----------------------------
(***************************************************************************)
(* Model of python/ee/cli/utils.py: the polling task waiters               *)
(* wait_for_task and wait_for_tasks (specification Spec), the              *)
(* configuration store CommandLineConfig (specification ConfigSpec) and    *)
(* the console helper query_yes_no (specification PromptSpec).             *)
(*                                                                         *)
(* Time is a global integer clock `now`, the time of day in ticks of 0.1 ms.*)
(* Time passes only while every thread is blocked, in                      *)
(* ee.data.getTaskStatus (a blocking network call whose duration the       *)
(* environment chooses) or in time.sleep (which is over later than asked,  *)
(* by a time the machine chooses).  The status a fetch returns is the      *)
(* task's status at the moment the fetch returns.  Thread 0 is the calling *)
(* thread; threads 1..N are the threading.Thread workers started by        *)
(* wait_for_tasks.  The console is shared: each print call is two writes,  *)
(* the text and the end of line, and the writes of the threads interleave  *)
(* freely.  A thread's steps run from one blocking call or write to the    *)
(* next.                                                                   *)
(***************************************************************************)
EXTENDS Integers, Sequences, FiniteSets

VARIABLES
  now,            \* wall clock, time.time(), as the time of day
  remote,         \* the service's task table: task id -> status record
  doneAt,         \* history: time at which a task entered a terminal state, or Never
  nslow,          \* history: number of status fetches that took time
  nfail,          \* history: number of status fetches that failed
  entry,          \* which function the command layer called
  task_id_list,   \* argument (for wait_for_task: the one-element list of its task_id)
  timeout,        \* argument
  log_progress,   \* argument
  mpc,            \* position of the calling thread
  i,              \* index of the `for` loop the calling thread is in
  bulkReady,      \* time at which the bulk getTaskStatus call returns
  nbulk,          \* history: number of bulk status fetches issued
  status_list,    \* the states of the statuses the bulk fetch returned
  frame,          \* thread -> activation record of wait_for_task
  out,            \* the console: the sequence of writes to sys.stdout
  environ,        \* os.environ: the value of EE_CONFIG_FILE, or None when it is not set
  files,          \* the file system: path -> content of the file
  self,           \* the CommandLineConfig object the command layer holds
  arg,            \* history: the config_file argument of the last construction
  saved,          \* history: the object as it was at the last save that succeeded
  written,        \* history: the path the last save opened for writing
  initialized,    \* history: the ee.Initialize calls made by the last operation
  nset,           \* history: number of attribute assignments by the command layer
  cpc,            \* the last operation on the configuration and how it ended
  builtins,       \* the names the interpreter defines as built-in functions
  msg,            \* argument of query_yes_no
  stdin,          \* the lines of standard input not read yet
  answer,         \* what query_yes_no returned or raised
  ppc             \* position of the call of query_yes_no

waitVars == <<now, remote, doneAt, nslow, nfail, entry, task_id_list, timeout, log_progress,
              mpc, i, bulkReady, nbulk, status_list, frame, out>>

configVars == <<environ, files, self, arg, saved, written, initialized, nset, cpc>>

promptVars == <<builtins, msg, stdin, answer, ppc>>

vars == <<waitVars, configVars, promptVars>>

-----------------------------------------------------------------------------
(* Bounds of the model *)

MaxTasks == 2        \* length of task_id_list
MaxFaults == 1       \* status fetches of one run that take time or fail
MaxSets == 2         \* attribute assignments to one run's configuration
MaxAnswers == 2      \* lines of standard input

(* Inputs *)

TaskIds == {"a", "b"}
TaskTimeouts == {-1, 0, 5, 25, 30, 70}
TasksTimeouts == {0, 5}
Never == 0 - 1

(* The clock.  time.time() is a float of seconds; the model counts ticks of *)
(* a tenth of a millisecond.  The arguments (timeout) stay in seconds.      *)
TicksPerSecond == 10000
Seconds(n) == n * TicksPerSecond

(* The times of day at which the command is started: noon, and 50 ms short  *)
(* of the second after it.                                                  *)
SecondsPerDay == 86400
ClockStarts == {Seconds(43200), Seconds(43201) - 500}

(* The time a slow status fetch takes *)
SlowLatencies == {Seconds(12)}

(* time.sleep(s) suspends the thread for at least s seconds, and the code   *)
(* up to the next reading of the clock takes time too: every sleep is over  *)
(* later than asked, by a time the machine chooses anew for each sleep.     *)
(* The times tried, in ticks: 0.1 ms, 11.3 ms and 30 ms.                    *)
Latenesses == {1, 113, 300}

(* Program constants *)

PollInterval == 10
ProgressInterval == 30

COMPLETED == "COMPLETED"
FAILED == "FAILED"
CANCELLED == "CANCELLED"
TASK_FINISHED_STATES == {COMPLETED, FAILED, CANCELLED}
States == {"READY", "RUNNING"} \cup TASK_FINISHED_STATES

Threads == 0..MaxTasks

(* A Python value that is None or a string.  None is a value of its own:    *)
(* it equals no string, the string 'None' included.                         *)
None == [type |-> "NoneType", value |-> ""]
Str(text) == [type |-> "str", value |-> text]

(* A status record of the service; error_message None is an absent key.     *)
Status(state, error_message) == [state |-> state, error_message |-> error_message]
Min(a, b) == IF a <= b THEN a ELSE b
Max(a, b) == IF a >= b THEN a ELSE b

RECURSIVE SeqsUpTo(_, _)
SeqsUpTo(S, n) ==
  IF n = 0 THEN {<<>>}
  ELSE LET shorter == SeqsUpTo(S, n - 1)
       IN  shorter \cup {Append(s, x) : s \in {q \in shorter : Len(q) = n - 1}, x \in S}

-----------------------------------------------------------------------------
(* Python truthiness of status.get('error_message', None): None and the     *)
(* empty string are false, every other string is true.                      *)
Truthy(error_message) == error_message \notin {None, Str("")}

(* The lines the module prints.  `by` is a history field naming the thread  *)
(* that printed the line; it is not part of the text.                       *)
Line(kind, t) ==
  [kind |-> kind, by |-> t, task |-> "", state |-> "", elapsed |-> 0, at |-> 0,
   msg |-> None, count |-> 0]
(* '%.2f' % elapsed: the number of hundredths of a second nearest to the   *)
(* elapsed time (no time of the model is halfway between two of them).      *)
Hundredths(ticks) == (ticks + 50) \div 100

(* '{:%H:%M:%S}'.format(datetime.now()): the time of day in whole seconds,  *)
(* the fraction of a second dropped, from 00:00:00 again after 23:59:59.    *)
ClockSeconds(ticks) == (ticks \div TicksPerSecond) % SecondsPerDay

EndedLine(t, task_id, state, elapsed) ==
  [Line("ended", t) EXCEPT !.task = task_id, !.state = state,
                           !.elapsed = Hundredths(elapsed)]
ErrorLine(t, error_message) ==
  [Line("error", t) EXCEPT !.msg = error_message]
ProgressLine(t, at, task_id, state) ==
  [Line("progress", t) EXCEPT !.at = ClockSeconds(at), !.task = task_id, !.state = state]
TimeoutLine(t, task_id, elapsed) ==
  [Line("timeout", t) EXCEPT !.task = task_id, !.elapsed = Hundredths(elapsed)]
SummaryLine(what, n) ==
  [Line(what, 0) EXCEPT !.count = n]

(* print(text) is two writes to sys.stdout: the text, then the end of line. *)
(* Another thread may write between the two.                                *)
Newline(t) == Line("newline", t)
RECURSIVE Writes(_)
Writes(lines) ==
  IF lines = <<>> THEN <<>>
  ELSE <<Head(lines), Newline(Head(lines).by)>> \o Writes(Tail(lines))

NoFrame ==
  [pc |-> "none", task_id |-> "", timeout |-> 0, log_progress |-> FALSE,
   start |-> 0, elapsed |-> 0, last_check |-> 0, state |-> "", error_message |-> None,
   ready |-> 0, todo |-> <<>>, nfetch |-> 0, nsleep |-> 0, slept |-> 0, late |-> 0,
   overslept |-> 0, fetchTime |-> 0]

(* A call wait_for_task(task_id, timeout, log_progress) about to run on a thread *)
NewFrame(task_id, to, lp) ==
  [NoFrame EXCEPT !.pc = "enter", !.task_id = task_id, !.timeout = to, !.log_progress = lp]

Finished(t) == frame[t].pc \in {"returned", "raised"}

-----------------------------------------------------------------------------
(* The configuration store: data *)

HOMEDIR == "~"
DEFAULT_EE_CONFIG_FILE == Str("~/.config/earthengine/credentials")

(* The parameters and their built-in defaults *)
CONFIG_PARAMS ==
  [url |-> Str("https://earthengine.googleapis.com"),
   account |-> None,
   private_key |-> None,
   refresh_token |-> None]

Keys == DOMAIN CONFIG_PARAMS

(* Inputs: the config_file arguments, the values of the environment        *)
(* variable, the paths that can name a file, the values an attribute is    *)
(* given.                                                                   *)
ExplicitPaths == {None, Str(""), Str("/x/credentials")}
EnvPaths == {None, Str(""), Str("/env/credentials")}
Paths == {Str("/x/credentials"), Str("/env/credentials"), DEFAULT_EE_CONFIG_FILE}
Values ==
  [url |-> {None, Str("https://test.example")},
   account |-> {None, Str(""), Str("acct@example")},
   private_key |-> {None, Str("key.pem")},
   refresh_token |-> {None, Str(""), Str("1/tok")}]

(* A JSON value as written in a file: a string literal or null *)
JsonString(text) == [type |-> "string", text |-> text]
JsonNull == [type |-> "null", text |-> ""]

(* What the file system holds at a path: no directory to hold the file, a   *)
(* directory but no file, a file whose text is not JSON, or a file whose    *)
(* text is a JSON object.  The object is given by its members, key -> JSON  *)
(* value: the order in which the text lists them is that of the             *)
(* interpreter's dictionaries, which differs from one interpreter and hash  *)
(* seed to another and which no reader of the file depends on.              *)
NoMembers == [key \in {} |-> JsonNull]
NoDirectory == [kind |-> "nodir", members |-> NoMembers]
NoFile == [kind |-> "absent", members |-> NoMembers]
Garbage == [kind |-> "garbage", members |-> NoMembers]
JsonObject(members) == [kind |-> "json", members |-> members]

(* No CommandLineConfig object: none constructed yet, or __init__ raised.   *)
NoObject ==
  [alive |-> FALSE, config_file |-> None, url |-> None, account |-> None,
   private_key |-> None, refresh_token |-> None]

(* The configuration store is not in use *)
ConfigIdle ==
  /\ environ = None
  /\ files = [path \in Paths |-> NoFile]
  /\ self = NoObject
  /\ arg = None
  /\ saved = NoObject
  /\ written = None
  /\ initialized = <<>>
  /\ nset = 0
  /\ cpc = "idle"

(* query_yes_no is not in use *)
PromptIdle ==
  /\ builtins = {}
  /\ msg = ""
  /\ stdin = <<>>
  /\ answer = "none"
  /\ ppc = "idle"

-----------------------------------------------------------------------------
(* The remote service (ee.data), consumed through getTaskStatus.            *)

(* The error_message a status in state s carries: a failed task has one, a  *)
(* cancelled task has an empty one, any other status has no such key        *)
(* (None).                                                                  *)
ErrorsOf(s) ==
  IF s = FAILED THEN {Str("boom")}
  ELSE IF s = CANCELLED THEN {Str("")}
  ELSE {None}

(* Every status record a task can have.                                      *)
Statuses == UNION {{Status(s, e) : e \in ErrorsOf(s)} : s \in States}

(* The statuses a task can have at a later time than one with status `st`:  *)
(* READY, then RUNNING, then a terminal state; a terminal status is final.  *)
Later(st) ==
  IF st.state \in TASK_FINISHED_STATES THEN {st}
  ELSE IF st.state = "RUNNING" THEN {r \in Statuses : r.state # "READY"}
  ELSE Statuses

Used(id) == \E k \in DOMAIN task_id_list : task_id_list[k] = id

(* The calls tried.  wait_for_tasks is called with progress lines off for   *)
(* timeout 0 and on for timeout 5 (no worker waits the 30 seconds of a      *)
(* progress line).  The lists tried: one list for all those that differ     *)
(* only in the names of the tasks or in the order of the entries (equal     *)
(* entries are adjacent and "a" comes first).                               *)
TaskIdLists ==
  {ids \in SeqsUpTo(TaskIds, MaxTasks) :
     \A k \in 1..(Len(ids) - 1) : ids[k] = "a" \/ ids[k + 1] = "b"}

Init ==
  /\ now \in ClockStarts
  /\ nslow = 0
  /\ nfail = 0
  /\ entry \in {"wait_for_task", "wait_for_tasks"}
  /\ task_id_list \in IF entry = "wait_for_task"
                      THEN {<<"a">>}
                      ELSE {ids \in TaskIdLists : ids = <<>> \/ ids[1] = "a"}
  /\ timeout \in IF entry = "wait_for_task" THEN TaskTimeouts ELSE TasksTimeouts
  /\ log_progress \in IF entry = "wait_for_task" THEN BOOLEAN ELSE {timeout > 0}
  /\ remote \in [TaskIds -> Statuses]
  /\ \A id \in TaskIds : ~Used(id) => remote[id] = Status("READY", None)
  /\ doneAt = [id \in TaskIds |-> Never]
  /\ mpc = "call"
  /\ i = 0
  /\ bulkReady = 0
  /\ nbulk = 0
  /\ status_list = <<>>
  /\ frame = [t \in Threads |-> NoFrame]
  /\ out = <<>>
  /\ ConfigIdle
  /\ PromptIdle

(* The status fetches of the run so far that took time or failed *)
Faults == nslow + nfail

(* getTaskStatus(ids): one status per identifier, in order.                 *)
getTaskStatus(ids) == [k \in DOMAIN ids |-> remote[ids[k]]]

(* The durations a status fetch issued now can take. *)
Latencies == {0} \cup (IF Faults < MaxFaults THEN SlowLatencies ELSE {})

-----------------------------------------------------------------------------
(* wait_for_task, run by thread t *)

(* Mutant: CANCELLED left out of the finished states *)
IsFinished_NotCancelled(state) == state \in {COMPLETED, FAILED}

(* state in TASK_FINISHED_STATES *)
IsFinished(state) == state \in TASK_FINISHED_STATES

ShouldLogProgress(lp, elapsed, last_check) ==
  lp /\ elapsed - last_check >= Seconds(ProgressInterval)

(* remaining = timeout - elapsed *)
Remaining(to, elapsed) == Seconds(to) - elapsed

(* Mutant: the deadline itself still counts as time remaining *)
ShouldSleep_AtDeadline(remaining) == remaining >= 0

ShouldSleep(remaining) == remaining > 0

(* Mutant: max where min is meant *)
SleepTime_Max(remaining) == Max(Seconds(PollInterval), remaining)

(* Mutant: a fixed sleep between polls *)
SleepTime_Fixed(remaining) == Seconds(PollInterval)

(* Mutant: one sleep for all the time remaining *)
SleepTime_Remaining(remaining) == remaining

(* time.sleep(min(10, remaining)) *)
SleepTime(remaining) == Min(Seconds(PollInterval), remaining)

(* Mutant: the state line is printed only for a status with an error *)
CompletionReport_OnlyOnError(t, task_id, status, elapsed) ==
  IF Truthy(status.error_message)
  THEN <<EndedLine(t, task_id, status.state, elapsed), ErrorLine(t, status.error_message)>>
  ELSE <<>>

(* The completion report: the line naming the state and the elapsed time,  *)
(* then the error line if the status has a truthy error_message.            *)
CompletionReport(t, task_id, status, elapsed) ==
  <<EndedLine(t, task_id, status.state, elapsed)>>
    \o (IF Truthy(status.error_message) THEN <<ErrorLine(t, status.error_message)>>
        ELSE <<>>)

(* Top of the loop: elapsed = time.time() - start, then the status fetch is *)
(* issued; it blocks for `latency` seconds.                                 *)
IssueFetch(f, latency) ==
  [f EXCEPT !.pc = "fetching",
            !.elapsed = now - f.start,
            !.ready = now + latency,
            !.nfetch = @ + 1,
            !.fetchTime = @ + latency]

(* The thread enters wait_for_task: start = time.time(); elapsed = 0;       *)
(* last_check = 0; and the first iteration up to the status fetch.          *)
Enter(t, latency) ==
  /\ frame[t].pc = "enter"
  /\ frame' = [frame EXCEPT ![t] =
                 IssueFetch([frame[t] EXCEPT !.start = now, !.elapsed = 0, !.last_check = 0],
                            latency)]
  /\ nslow' = IF latency > 0 THEN nslow + 1 ELSE nslow
  /\ UNCHANGED <<configVars, promptVars, now, remote, doneAt, nfail, entry, task_id_list, timeout, log_progress,
                 mpc, i, bulkReady, nbulk, status_list, out>>

(* time.sleep returns, and the next iteration up to the status fetch.       *)
Wake(t, latency) ==
  /\ frame[t].pc = "sleeping"
  /\ frame[t].ready <= now
  /\ frame' = [frame EXCEPT ![t] = IssueFetch(frame[t], latency)]
  /\ nslow' = IF latency > 0 THEN nslow + 1 ELSE nslow
  /\ UNCHANGED <<configVars, promptVars, now, remote, doneAt, nfail, entry, task_id_list, timeout, log_progress,
                 mpc, i, bulkReady, nbulk, status_list, out>>

(* The status fetch fails: the exception leaves wait_for_task.              *)
FetchRaises(t) ==
  /\ frame[t].pc = "fetching"
  /\ frame[t].ready <= now
  /\ Faults < MaxFaults
  /\ nfail' = nfail + 1
  /\ frame' = [frame EXCEPT ![t].pc = "raised"]
  /\ UNCHANGED <<configVars, promptVars, now, remote, doneAt, nslow, entry, task_id_list, timeout, log_progress,
                 mpc, i, bulkReady, nbulk, status_list, out>>

(* The end of an iteration whose status was seen and whose prints are done: *)
(* return after a completion report or after the timeout line, otherwise    *)
(* time.sleep(min(10, remaining)), which is over `lateness` late.           *)
AfterPrints(f, lateness) ==
  LET remaining == Remaining(f.timeout, f.elapsed)
  IN  IF IsFinished(f.state) \/ ~ShouldSleep(remaining)
      THEN [f EXCEPT !.pc = "returned"]
      ELSE [f EXCEPT !.pc = "sleeping",
                     !.ready = now + SleepTime(remaining) + lateness,
                     !.nsleep = @ + 1,
                     !.slept = @ + SleepTime(remaining),
                     !.late = @ + lateness,
                     !.overslept = lateness]

(* The status fetch returns a status; the rest of the loop body up to the   *)
(* first write of its first print call, or, if the iteration prints         *)
(* nothing, up to the next blocking call or to the end of the function.     *)
(* Each print call is two writes, the text and the end of line; the writes  *)
(* after the first one are left in `todo` for write_next, and other threads *)
(* may write in between.                                                    *)
FetchReturns(t, lateness) ==
  LET f == frame[t]
      status == getTaskStatus(<<f.task_id>>)[1]
      state == status.state
      logs == ShouldLogProgress(f.log_progress, f.elapsed, f.last_check)
      remaining == Remaining(f.timeout, f.elapsed)
      progress == IF logs THEN <<ProgressLine(t, now, f.task_id, state)>> ELSE <<>>
      lines == IF IsFinished(state) THEN CompletionReport(t, f.task_id, status, f.elapsed)
               ELSE IF ShouldSleep(remaining) THEN progress
               ELSE Append(progress, TimeoutLine(t, f.task_id, f.elapsed))
      seen == IF IsFinished(state)
              THEN [f EXCEPT !.state = state, !.error_message = status.error_message]
              ELSE [f EXCEPT !.state = state, !.last_check = IF logs THEN f.elapsed ELSE @]
  IN
  /\ f.pc = "fetching"
  /\ f.ready <= now
  /\ out' = IF lines = <<>> THEN out ELSE Append(out, Head(Writes(lines)))
  /\ frame' = [frame EXCEPT ![t] =
                 IF lines = <<>> THEN AfterPrints(seen, lateness)
                 ELSE [seen EXCEPT !.pc = "printing", !.todo = Tail(Writes(lines))]]
  /\ UNCHANGED <<configVars, promptVars, now, remote, doneAt, nslow, nfail, entry, task_id_list, timeout,
                 log_progress, mpc, i, bulkReady, nbulk, status_list>>

(* The next write of an iteration that prints; after the last of them the   *)
(* iteration goes on to its sleep or the function returns.                  *)
write_next(t, lateness) ==
  LET f == frame[t]
  IN
  /\ f.pc = "printing"
  /\ out' = Append(out, Head(f.todo))
  /\ frame' = [frame EXCEPT ![t] =
                 IF Tail(f.todo) = <<>> THEN AfterPrints([f EXCEPT !.todo = <<>>], lateness)
                 ELSE [f EXCEPT !.todo = Tail(@)]]
  /\ UNCHANGED <<configVars, promptVars, now, remote, doneAt, nslow, nfail, entry, task_id_list, timeout,
                 log_progress, mpc, i, bulkReady, nbulk, status_list>>

-----------------------------------------------------------------------------
(* The calling thread *)

(* The command layer calls wait_for_task(task_id, timeout, log_progress).   *)
wait_for_task ==
  /\ mpc = "call"
  /\ entry = "wait_for_task"
  /\ frame' = [frame EXCEPT ![0] = NewFrame(task_id_list[1], timeout, log_progress)]
  /\ mpc' = "in_task"
  /\ UNCHANGED <<configVars, promptVars, now, remote, doneAt, nslow, nfail, entry, task_id_list, timeout, log_progress,
                 i, bulkReady, nbulk, status_list, out>>

(* Mutant: the single-identifier shortcut is never taken *)
Delegates_Never(ids) == FALSE

(* len(task_id_list) == 1 *)
Delegates(ids) == Len(ids) = 1

(* wait_for_tasks(task_id_list, timeout, log_progress): the branch on the   *)
(* length of the list.                                                      *)
wait_for_tasks ==
  /\ mpc = "call"
  /\ entry = "wait_for_tasks"
  /\ IF Delegates(task_id_list)
     THEN /\ frame' = [frame EXCEPT ![0] = NewFrame(task_id_list[1], timeout, log_progress)]
          /\ mpc' = "in_task"
          /\ i' = i
     ELSE /\ mpc' = IF task_id_list = <<>> THEN "join" ELSE "spawn"
          /\ i' = 1
          /\ frame' = frame
  /\ UNCHANGED <<configVars, promptVars, now, remote, doneAt, nslow, nfail, entry, task_id_list, timeout, log_progress,
                 bulkReady, nbulk, status_list, out>>

(* wait_for_task returned, or raised, on the calling thread.                *)
TaskReturns ==
  /\ mpc = "in_task"
  /\ Finished(0)
  /\ mpc' = frame[0].pc
  /\ UNCHANGED <<configVars, promptVars, now, remote, doneAt, nslow, nfail, entry, task_id_list, timeout, log_progress,
                 i, bulkReady, nbulk, status_list, frame, out>>

(* One iteration of the loop that creates and starts a thread per entry;    *)
(* after the last one the calling thread is at the first join.              *)
StartThread ==
  /\ mpc = "spawn"
  /\ i <= Len(task_id_list)
  /\ frame' = [frame EXCEPT ![i] = NewFrame(task_id_list[i], timeout, log_progress)]
  /\ i' = IF i = Len(task_id_list) THEN 1 ELSE i + 1
  /\ mpc' = IF i = Len(task_id_list) THEN "join" ELSE "spawn"
  /\ UNCHANGED <<configVars, promptVars, now, remote, doneAt, nslow, nfail, entry, task_id_list, timeout, log_progress,
                 bulkReady, nbulk, status_list, out>>

(* Mutant: join returns only for a thread whose function returned *)
CanJoin_OnlyReturned(t) == frame[t].pc = "returned"

(* Mutant: join returns without waiting *)
CanJoin_NoWait(t) == TRUE

(* thread.join() returns *)
CanJoin(t) == Finished(t)

(* One iteration of the join loop: thread.join() is called for the threads  *)
(* in the order of the list, and the call for thread i returns once that    *)
(* thread has ended, however it ended.                                      *)
JoinThread ==
  /\ mpc = "join"
  /\ i <= Len(task_id_list)
  /\ CanJoin(i)
  /\ i' = i + 1
  /\ UNCHANGED <<configVars, promptVars, now, remote, doneAt, nslow, nfail, entry, task_id_list, timeout,
                 log_progress, mpc, bulkReady, nbulk, status_list, frame, out>>

(* The join loop is over: status_list = ee.data.getTaskStatus(task_id_list) *)
(* is issued and blocks for `latency` seconds.                              *)
BulkFetch(latency) ==
  /\ mpc = "join"
  /\ i > Len(task_id_list)
  /\ i' = i
  /\ mpc' = "bulk"
  /\ bulkReady' = now + latency
  /\ nbulk' = nbulk + 1
  /\ nslow' = IF latency > 0 THEN nslow + 1 ELSE nslow
  /\ UNCHANGED <<configVars, promptVars, now, remote, doneAt, nfail, entry, task_id_list, timeout, log_progress,
                 status_list, frame, out>>

BulkRaises ==
  /\ mpc = "bulk"
  /\ bulkReady <= now
  /\ Faults < MaxFaults
  /\ nfail' = nfail + 1
  /\ mpc' = "raised"
  /\ UNCHANGED <<configVars, promptVars, now, remote, doneAt, nslow, entry, task_id_list, timeout, log_progress,
                 i, bulkReady, nbulk, status_list, frame, out>>

(* Mutant: the tally assigns 1 instead of adding 1 *)
status_counts_Assign(statuses, state) ==
  IF \E k \in DOMAIN statuses : statuses[k] = state THEN 1 ELSE 0

(* status_counts[state] after the tallying loop *)
status_counts(statuses, state) ==
  Cardinality({k \in DOMAIN statuses : statuses[k] = state})

(* Mutant: the cancelled tasks are not subtracted *)
num_incomplete_CancelledLeftIn(statuses) ==
  Len(statuses) - status_counts(statuses, COMPLETED) - status_counts(statuses, FAILED)

(* Mutant: only RUNNING tasks are counted as incomplete *)
num_incomplete_RunningOnly(statuses) == status_counts(statuses, "RUNNING")

num_incomplete(statuses) ==
  Len(statuses) - status_counts(statuses, COMPLETED)
    - status_counts(statuses, FAILED) - status_counts(statuses, CANCELLED)

(* Mutant: no summary is printed for an empty list of statuses *)
Summary_UnlessEmpty(statuses) ==
  IF statuses = <<>> THEN <<>>
  ELSE << Line("finished", 0),
          SummaryLine("completed", status_counts(statuses, COMPLETED)),
          SummaryLine("failed", status_counts(statuses, FAILED)),
          SummaryLine("cancelled", status_counts(statuses, CANCELLED)),
          SummaryLine("incomplete", num_incomplete(statuses)) >>

(* The summary block *)
Summary(statuses) ==
  << Line("finished", 0),
     SummaryLine("completed", status_counts(statuses, COMPLETED)),
     SummaryLine("failed", status_counts(statuses, FAILED)),
     SummaryLine("cancelled", status_counts(statuses, CANCELLED)),
     SummaryLine("incomplete", num_incomplete(statuses)) >>

(* The bulk fetch returns; the tally and the summary block.  Every worker   *)
(* has been joined, so no other thread writes between these writes.         *)
BulkReturns ==
  /\ mpc = "bulk"
  /\ bulkReady <= now
  /\ status_list' = [k \in DOMAIN task_id_list |-> getTaskStatus(task_id_list)[k].state]
  /\ out' = out \o Writes(Summary(status_list'))
  /\ mpc' = "returned"
  /\ UNCHANGED <<configVars, promptVars, now, remote, doneAt, nslow, nfail, entry, task_id_list, timeout, log_progress,
                 i, bulkReady, nbulk, frame>>

-----------------------------------------------------------------------------
(* Time *)

Blocked(t) == frame[t].pc \in {"fetching", "sleeping"}

(* Thread t can take a step now *)
Runnable(t) ==
  \/ frame[t].pc \in {"enter", "printing"}
  \/ Blocked(t) /\ frame[t].ready <= now

MainRunnable ==
  \/ mpc \in {"call", "spawn"}
  \/ mpc = "in_task" /\ Finished(0)
  \/ mpc = "join" /\ (i > Len(task_id_list) \/ CanJoin(i))
  \/ mpc = "bulk" /\ bulkReady <= now

(* The times at which the blocked threads resume *)
Deadlines ==
  {frame[t].ready : t \in {u \in Threads : Blocked(u)}}
    \cup (IF mpc = "bulk" THEN {bulkReady} ELSE {})

Earliest(S) == CHOOSE m \in S : \A x \in S : m <= x

(* The statuses the tasks may have by the time the clock has advanced *)
Futures ==
  {r \in [TaskIds -> Statuses] :
     \A id \in TaskIds : r[id] \in (IF Used(id) THEN Later(remote[id]) ELSE {remote[id]})}

Finishes(r, id) == ~IsFinished(remote[id].state) /\ IsFinished(r[id].state)

(* The times tried for a task that finishes after `from` and no later than  *)
(* `to`: just after `from`, 5 seconds after `from`, and at `to`.            *)
CompletionTimes(from, to) == {d \in {from + 1, from + Seconds(5), to} : d <= to}

(* Every thread is blocked: the clock advances to the time at which the     *)
(* first of them resumes.  Meanwhile the tasks may have advanced; a task    *)
(* that reached a terminal state did so at some time d on the way.          *)
Advance ==
  /\ ~MainRunnable
  /\ \A t \in Threads : ~Runnable(t)
  /\ Deadlines # {}
  /\ now' = Earliest(Deadlines)
  /\ \E r \in Futures :
       /\ remote' = r
       /\ IF entry = "wait_for_task" /\ \E id \in TaskIds : Finishes(r, id)
          THEN \E d \in CompletionTimes(now, Earliest(Deadlines)) :
                 doneAt' = [id \in TaskIds |-> IF Finishes(r, id) THEN d ELSE doneAt[id]]
          ELSE doneAt' = doneAt
  /\ UNCHANGED <<configVars, promptVars, nslow, nfail, entry, task_id_list, timeout, log_progress,
                 mpc, i, bulkReady, nbulk, status_list, frame, out>>

-----------------------------------------------------------------------------
Next ==
  \/ \E t \in Threads, latency \in Latencies : Enter(t, latency)
  \/ \E t \in Threads : FetchRaises(t)
  \/ \E t \in Threads, lateness \in Latenesses : FetchReturns(t, lateness)
  \/ \E t \in Threads, lateness \in Latenesses : write_next(t, lateness)
  \/ \E t \in Threads, latency \in Latencies : Wake(t, latency)
  \/ wait_for_task
  \/ wait_for_tasks
  \/ TaskReturns
  \/ StartThread
  \/ JoinThread
  \/ \E latency \in Latencies : BulkFetch(latency)
  \/ BulkRaises
  \/ BulkReturns
  \/ Advance

Spec == Init /\ [][Next]_vars

-----------------------------------------------------------------------------
(* The configuration store: CommandLineConfig *)

(* The task waiters are not in use *)
WaiterIdle ==
  /\ now = 0
  /\ remote = [id \in TaskIds |-> Status("READY", None)]
  /\ doneAt = [id \in TaskIds |-> Never]
  /\ nslow = 0
  /\ nfail = 0
  /\ entry = "none"
  /\ task_id_list = <<>>
  /\ timeout = 0
  /\ log_progress = FALSE
  /\ mpc = "idle"
  /\ i = 0
  /\ bulkReady = 0
  /\ nbulk = 0
  /\ status_list = <<>>
  /\ frame = [t \in Threads |-> NoFrame]
  /\ out = <<>>

(* Files found on the disk when the command starts *)
TokenFile ==
  JsonObject([url |-> JsonString("https://test.example"),
              account |-> JsonNull,
              refresh_token |-> JsonString("1/tok")])
AccountFile ==
  JsonObject([private_key |-> JsonString("key.pem"),
              project |-> JsonString("p"),
              account |-> JsonString("acct@example")])
InitialFiles ==
  [path \in Paths |->
     IF path = Str("/x/credentials") THEN {NoFile, AccountFile}
     ELSE IF path = Str("/env/credentials") THEN {NoFile, TokenFile}
     ELSE {NoDirectory, Garbage, TokenFile}]

ConfigInit ==
  /\ WaiterIdle
  /\ PromptIdle
  /\ environ \in EnvPaths
  /\ files \in [Paths -> UNION {InitialFiles[path] : path \in Paths}]
  /\ \A path \in Paths : files[path] \in InitialFiles[path]
  /\ self = NoObject
  /\ arg = None
  /\ saved = NoObject
  /\ written = None
  /\ initialized = <<>>
  /\ nset = 0
  /\ cpc = "start"

(* os.environ.get(EE_CONFIG_FILE, default) *)
EnvironGet(default) == IF environ = None THEN default ELSE environ

(* Mutant: the environment variable overrides the argument *)
Resolve_EnvironmentFirst(config_file) ==
  IF environ # None THEN environ
  ELSE IF Truthy(config_file) THEN config_file
  ELSE DEFAULT_EE_CONFIG_FILE

(* The path __init__ stores in self.config_file *)
Resolve(config_file) ==
  IF ~Truthy(config_file) THEN EnvironGet(DEFAULT_EE_CONFIG_FILE) ELSE config_file

(* os.path.exists(path) *)
Exists(path) == path \in Paths /\ files[path].kind \notin {"nodir", "absent"}

(* open(path, 'w') succeeds: the path names a file in a directory that      *)
(* exists (the empty path names none).                                      *)
Writable(path) == path \in Paths /\ files[path].kind # "nodir"

(* json.dump and json.load of one value *)
JsonEncode(value) == IF value = None THEN JsonNull ELSE JsonString(value.value)
JsonDecode(json) == IF json.type = "null" THEN None ELSE Str(json.text)

(* json.dump(config, output_file): the object of the dictionary's members  *)
JsonDump(config) ==
  JsonObject([key \in DOMAIN config |-> JsonEncode(config[key])])

(* json.load(config_file_json): the dictionary of the object's members      *)
JsonLoad(content) ==
  [key \in DOMAIN content.members |-> JsonDecode(content.members[key])]

(* config.get(key, default) *)
DictGet(config, key, default) == IF key \in DOMAIN config THEN config[key] ELSE default

(* CommandLineConfig(config_file): __init__ *)
CommandLineConfig(config_file) ==
  LET path == Resolve(config_file)
      config == IF Exists(path) THEN JsonLoad(files[path]) ELSE JsonLoad(NoFile)
      get(key) == DictGet(config, key, CONFIG_PARAMS[key])
  IN
  /\ arg' = config_file
  /\ IF Exists(path) /\ files[path].kind = "garbage"
     THEN /\ self' = [NoObject EXCEPT !.config_file = path]
          /\ cpc' = "construct_raised"
     ELSE /\ self' = [alive |-> TRUE, config_file |-> path,
                      url |-> get("url"), account |-> get("account"),
                      private_key |-> get("private_key"),
                      refresh_token |-> get("refresh_token")]
          /\ cpc' = "constructed"
  /\ initialized' = <<>>
  /\ UNCHANGED <<waitVars, promptVars, environ, files, saved, written, nset>>

(* The command layer assigns an attribute of the configuration *)
SetAttr(key, value) ==
  /\ self.alive
  /\ nset < MaxSets
  /\ value # self[key]
  /\ self' = [self EXCEPT ![key] = value]
  /\ nset' = nset + 1
  /\ cpc' = "assigned"
  /\ initialized' = <<>>
  /\ UNCHANGED <<waitVars, promptVars, environ, files, arg, saved, written>>

(* Mutant: an empty value is left out of the file as None is *)
IsSaved_IfTruthy(value) == Truthy(value)

(* save: value is not None *)
IsSaved(value) == value # None

(* save *)
save ==
  LET config == [key \in {k \in Keys : IsSaved(self[k])} |-> self[key]]
  IN
  /\ self.alive
  /\ written' = self.config_file
  /\ IF Writable(self.config_file)
     THEN /\ files' = [files EXCEPT ![self.config_file] = JsonDump(config)]
          /\ saved' = self
          /\ cpc' = "saved"
     ELSE /\ cpc' = "save_raised"
          /\ UNCHANGED <<files, saved>>
  /\ initialized' = <<>>
  /\ UNCHANGED <<waitVars, promptVars, environ, self, arg, nset>>

(* The credentials objects *)
ServiceAccountCredentials(account, private_key) ==
  [kind |-> "ServiceAccountCredentials", account |-> account, private_key |-> private_key,
   refresh_token |-> None]
OAuth2Credentials(refresh_token) ==
  [kind |-> "OAuth2Credentials", account |-> None, private_key |-> None,
   refresh_token |-> refresh_token]
Persistent ==
  [kind |-> "persistent", account |-> None, private_key |-> None, refresh_token |-> None]

(* Mutant: a refresh token is preferred to the service account *)
Credentials_TokenFirst(config) ==
  IF Truthy(config.refresh_token) THEN OAuth2Credentials(config.refresh_token)
  ELSE IF Truthy(config.account) /\ Truthy(config.private_key)
  THEN ServiceAccountCredentials(config.account, config.private_key)
  ELSE Persistent

(* The credentials ee_init selects *)
Credentials(config) ==
  IF Truthy(config.account) /\ Truthy(config.private_key)
  THEN ServiceAccountCredentials(config.account, config.private_key)
  ELSE IF Truthy(config.refresh_token) THEN OAuth2Credentials(config.refresh_token)
  ELSE Persistent

(* ee.Initialize(credentials=credentials, opt_url=opt_url), as called *)
Initialize(credentials, opt_url) == [credentials |-> credentials, opt_url |-> opt_url]

(* ee_init; the service accepts the session or rejects it *)
ee_init(accepted) ==
  /\ self.alive
  /\ initialized' = <<Initialize(Credentials(self), self.url)>>
  /\ cpc' = IF accepted THEN "initialized" ELSE "initialize_raised"
  /\ UNCHANGED <<waitVars, promptVars, environ, files, self, arg, saved, written, nset>>

ConfigNext ==
  \/ \E config_file \in ExplicitPaths : CommandLineConfig(config_file)
  \/ \E key \in Keys : \E value \in Values[key] : SetAttr(key, value)
  \/ save
  \/ \E accepted \in BOOLEAN : ee_init(accepted)

ConfigSpec == ConfigInit /\ [][ConfigNext]_vars

-----------------------------------------------------------------------------
(* The console helpers: query_yes_no and truncate *)

(* Inputs: the question, the lines typed, the interpreters (Python 2 has    *)
(* the built-in raw_input, Python 3 has not).                               *)
Questions == {"Overwrite?"}
Answers == {"y", "n", "Y", "N", "maybe", ""}
Interpreters == {{"raw_input"}, {}}

(* str.lower() *)
Lower(text) ==
  IF text = "Y" THEN "y"
  ELSE IF text = "N" THEN "n"
  ELSE text

(* The lines query_yes_no prints: '<msg> (y/n)' and the request to answer   *)
(* again.                                                                   *)
PromptLine(text) == [Line("prompt", 0) EXCEPT !.msg = Str(text)]
RespondLine == Line("respond", 0)

PromptInit ==
  /\ WaiterIdle
  /\ ConfigIdle
  /\ builtins \in Interpreters
  /\ msg \in Questions
  /\ stdin \in SeqsUpTo(Answers, MaxAnswers)
  /\ answer = "none"
  /\ ppc = "call"

(* query_yes_no(msg) is called: the question is printed *)
query_yes_no ==
  /\ ppc = "call"
  /\ out' = out \o Writes(<<PromptLine(msg)>>)
  /\ ppc' = "reading"
  /\ UNCHANGED <<configVars, now, remote, doneAt, nslow, nfail, entry, task_id_list,
                 timeout, log_progress, mpc, i, bulkReady, nbulk, status_list, frame,
                 builtins, msg, stdin, answer>>

(* One iteration of the loop: confirm = raw_input().lower() and the branch  *)
(* on it.  raw_input raises NameError where it is not a built-in function   *)
(* and EOFError at the end of the input.                                    *)
Confirm ==
  /\ ppc = "reading"
  /\ IF "raw_input" \notin builtins
     THEN /\ answer' = "NameError"
          /\ ppc' = "raised"
          /\ UNCHANGED <<stdin, out>>
     ELSE IF stdin = <<>>
     THEN /\ answer' = "EOFError"
          /\ ppc' = "raised"
          /\ UNCHANGED <<stdin, out>>
     ELSE LET confirm == Lower(Head(stdin))
          IN  /\ stdin' = Tail(stdin)
              /\ IF confirm = "y"
                 THEN answer' = "True" /\ ppc' = "returned" /\ out' = out
                 ELSE IF confirm = "n"
                 THEN answer' = "False" /\ ppc' = "returned" /\ out' = out
                 ELSE answer' = answer /\ ppc' = ppc /\ out' = out \o Writes(<<RespondLine>>)
  /\ UNCHANGED <<configVars, now, remote, doneAt, nslow, nfail, entry, task_id_list,
                 timeout, log_progress, mpc, i, bulkReady, nbulk, status_list, frame,
                 builtins, msg>>

PromptNext ==
  \/ query_yes_no
  \/ Confirm

PromptSpec == PromptInit /\ [][PromptNext]_vars

(* string[:length] for a string given as the sequence of its characters; a  *)
(* negative length counts from the end.                                     *)
Slice(string, length) ==
  IF length >= 0 THEN SubSeq(string, 1, Min(length, Len(string)))
  ELSE SubSeq(string, 1, Max(Len(string) + length, 0))

(* truncate(string, length) *)
truncate(string, length) ==
  IF Len(string) > length THEN Slice(string, length) \o <<".", ".">> ELSE string

-----------------------------------------------------------------------------
(* What the console shows *)

(* The texts of the given kinds written by thread t, in order: the lines    *)
(* thread t has emitted.                                                    *)
Printed(t, kinds) == SelectSeq(out, LAMBDA l : l.by = t /\ l.kind \in kinds)

(* Thread t has written as many ends of line as texts but for the one of    *)
(* the print call it is in.                                                 *)
EndsOfLine(t) == Len(Printed(t, {"newline"}))
Texts(t) == Len(SelectSeq(out, LAMBDA l : l.by = t /\ l.kind # "newline"))

Reports(t) == Printed(t, {"ended", "error", "progress", "timeout"})

SummaryKinds == {"finished", "completed", "failed", "cancelled", "incomplete"}

SummaryBlock == SelectSeq(out, LAMBDA l : l.kind \in SummaryKinds)

(* The texts written, by any thread, in the order of the writes *)
Emitted == SelectSeq(out, LAMBDA l : l.kind # "newline")

Workers == 1..Len(task_id_list)

Called(t) == frame[t].pc # "none"

Running(t) == frame[t].pc \in {"enter", "fetching", "sleeping", "printing"}

(* p is the beginning of s *)
IsPrefix(p, s) == Len(p) <= Len(s) /\ SubSeq(s, 1, Len(p)) = p

(* The completion report expected of thread t for the status it last fetched *)
ExpectedCompletion(t) ==
  LET f == frame[t]
  IN  <<EndedLine(t, f.task_id, f.state, f.elapsed)>>
        \o (IF f.error_message \notin {None, Str("")}
            THEN <<ErrorLine(t, f.error_message)>> ELSE <<>>)

-----------------------------------------------------------------------------
(* C1: in every call of wait_for_task, on any thread, once a poll has       *)
(* fetched COMPLETED, FAILED or CANCELLED the call fetches and sleeps no    *)
(* more: it has written the completion line with its task id, that state    *)
(* and the elapsed time of that poll, it is inside the print calls of the   *)
(* report (an end of line or the error line is still to be written) or has  *)
(* returned normally, and when it has returned it has printed the error     *)
(* line exactly when the status carried a non-empty error message, as its   *)
(* last line, each of its lines with its end of line, and no timeout line;  *)
(* and a completion line is printed for no other state.                     *)
C1_TerminalStateIsReportedAndReturns ==
  \A t \in Threads :
    LET f == frame[t]
        terminal == f.state \in {"COMPLETED", "FAILED", "CANCELLED"}
        final == Printed(t, {"ended", "error", "timeout"})
        reports == Reports(t)
        expected == ExpectedCompletion(t)
    IN  /\ terminal =>
             /\ f.pc \in {"printing", "returned"}
             /\ final # <<>>
             /\ IsPrefix(final, expected)
             /\ f.pc = "printing" => final # expected \/ EndsOfLine(t) = Texts(t) - 1
             /\ f.pc = "returned" =>
                  /\ final = expected
                  /\ EndsOfLine(t) = Texts(t)
                  /\ Len(reports) >= Len(expected)
                  /\ SubSeq(reports, Len(reports) - Len(expected) + 1, Len(reports))
                       = expected
        /\ ~terminal => Printed(t, {"ended"}) = <<>>

(* A worker saw CANCELLED with an empty message on a later poll, another    *)
(* call saw FAILED with a message.                                          *)
C1_Witness ==
  \E t, u \in Threads :
    /\ frame[t].state = "CANCELLED" /\ frame[t].error_message = Str("")
    /\ frame[t].nfetch >= 2 /\ frame[t].pc = "returned"
    /\ frame[u].state = "FAILED" /\ frame[u].pc = "returned"
    /\ Printed(u, {"error"}) # <<>>

(* C2: a call of wait_for_task that has returned has printed exactly one    *)
(* final report, the completion line if its last fetch saw a terminal       *)
(* state and the timeout line otherwise; a call that has not returned has   *)
(* written none, unless it is inside the print calls of its final report:   *)
(* then it has written the text of the completion line, or at most the      *)
(* text of the timeout line, whose end of line is still to come.            *)
C2_ExactlyOneFinalReport ==
  \A t \in Threads :
    LET ended == Len(Printed(t, {"ended"}))
        timedOut == Len(Printed(t, {"timeout"}))
    IN  /\ frame[t].pc = "returned" =>
             /\ ended + timedOut = 1
             /\ ended = 1 <=> frame[t].state \in {"COMPLETED", "FAILED", "CANCELLED"}
        /\ frame[t].pc \notin {"returned", "printing"} => ended + timedOut = 0
        /\ frame[t].pc = "printing" =>
             /\ ended + timedOut <= 1
             /\ ended = 1 <=> frame[t].state \in {"COMPLETED", "FAILED", "CANCELLED"}
             /\ timedOut = 1 => frame[t].todo = <<Newline(t)>>

(* One worker returned with a completion line and another with a timeout line *)
C2_Witness ==
  \E t, u \in Threads :
    /\ frame[t].pc = "returned" /\ Printed(t, {"ended"}) # <<>>
    /\ frame[u].pc = "returned" /\ Printed(u, {"timeout"}) # <<>> /\ frame[u].nsleep >= 1

(* C3, as stated: a call of wait_for_task is over within timeout + 10       *)
(* seconds of its invocation.                                               *)
C3_EndsWithinTimeoutPlusTen ==
  \A t \in Threads :
    frame[t].pc \in {"fetching", "sleeping"} =>
      now - frame[t].start <= Seconds(frame[t].timeout + PollInterval)

(* C3, amended: the sleeps a call of wait_for_task asks for add up to at    *)
(* most max(timeout, 0) seconds, so the call is over within max(timeout, 0) *)
(* seconds plus the time it spent blocked in status fetches and the time by *)
(* which its sleeps were over later than asked, and a call that is not over *)
(* can always go on; with fetches that take no time, sleeps that are late   *)
(* by 10 seconds in all at most and timeout >= -10 that is within           *)
(* timeout + 10 seconds.                                                    *)
C3_EndsWithinTimeoutPlusFetchTime ==
  /\ (\E t \in Threads : Running(t)) => ENABLED Next
  /\ \A t \in Threads :
       /\ frame[t].slept <= Seconds(Max(frame[t].timeout, 0))
       /\ frame[t].pc \in {"fetching", "sleeping"} =>
            /\ now - frame[t].start
                 <= Seconds(Max(frame[t].timeout, 0)) + frame[t].fetchTime + frame[t].late
            /\ (frame[t].fetchTime = 0 /\ frame[t].late <= Seconds(PollInterval)
                  /\ frame[t].timeout >= -PollInterval) =>
                 now - frame[t].start <= Seconds(frame[t].timeout + PollInterval)

(* A call with timeout 25 whose task never finished is in its last fetch,   *)
(* 37.03 seconds after it began, that fetch having taken 12 seconds and the *)
(* last of its three sleeps having been over 30 ms late.                    *)
C3_Witness ==
  \E t \in Threads :
    /\ frame[t].pc = "fetching" /\ frame[t].timeout = 25
    /\ frame[t].fetchTime = Seconds(12) /\ frame[t].nsleep = 3
    /\ frame[t].overslept = 300
    /\ now - frame[t].start = Seconds(37) + 300

(* C4: a call of wait_for_task with timeout <= 0 never sleeps and fetches   *)
(* the status once; when it has returned it has printed only the timeout    *)
(* line if that fetch saw a non-terminal state and only the completion      *)
(* report otherwise.                                                        *)
C4_NonPositiveTimeoutPollsOnce ==
  \A t \in Threads :
    Called(t) /\ frame[t].timeout <= 0 =>
      /\ frame[t].nsleep = 0
      /\ frame[t].nfetch <= 1
      /\ Finished(t) => frame[t].nfetch = 1
      /\ frame[t].pc = "returned" =>
           Reports(t) = IF frame[t].state \in {"COMPLETED", "FAILED", "CANCELLED"}
                        THEN ExpectedCompletion(t)
                        ELSE <<TimeoutLine(t, frame[t].task_id, frame[t].elapsed)>>
      /\ frame[t].pc = "returned" => EndsOfLine(t) = Texts(t)

(* A call with a negative timeout timed out on a running task, and a call   *)
(* with timeout 0 reported a finished one.                                  *)
C4_Witness ==
  \/ /\ frame[0].pc = "returned" /\ frame[0].timeout < 0
     /\ frame[0].state = "RUNNING" /\ Printed(0, {"timeout"}) # <<>>
  \/ \E t \in Threads :
       /\ frame[t].pc = "returned" /\ frame[t].timeout = 0
       /\ frame[t].state = "COMPLETED" /\ Printed(t, {"ended"}) # <<>>

(* C5: with two or more identifiers, the bulk status fetch is issued and    *)
(* the summary printed only when every list entry has a worker and every    *)
(* worker has ended: while a worker is still to run, polling, sleeping or   *)
(* printing, the calling thread is in its start loop or its join loop, no   *)
(* bulk fetch has been issued and no summary line written; and the join     *)
(* loop has passed only workers that have ended, so a worker that ends      *)
(* early lets the calling thread go on to the next worker and no further.   *)
C5_BulkFetchAfterAllWorkersEnded ==
  (entry = "wait_for_tasks" /\ Len(task_id_list) >= 2) =>
    /\ (mpc = "bulk" \/ nbulk > 0 \/ SummaryBlock # <<>>) =>
         \A k \in Workers : Called(k) /\ Finished(k)
    /\ (\E k \in Workers : Running(k)) =>
         /\ mpc \in {"spawn", "join"}
         /\ nbulk = 0
         /\ SummaryBlock = <<>>
    /\ mpc = "join" =>
         /\ i \in 1..(Len(task_id_list) + 1)
         /\ \A k \in Workers : k < i => Finished(k)

(* The summary is out; the first worker had ended at its first poll while   *)
(* the second one polled on until its timeout.                              *)
C5_Witness ==
  /\ SummaryBlock # <<>>
  /\ Len(task_id_list) = 2
  /\ frame[1].pc = "returned" /\ frame[1].nfetch = 1 /\ Printed(1, {"ended"}) # <<>>
  /\ frame[2].pc = "returned" /\ frame[2].nsleep >= 1 /\ Printed(2, {"timeout"}) # <<>>

(* The summary block for the given four counts *)
SummaryOf(completed, failed, cancelled, incomplete) ==
  << Line("finished", 0),
     SummaryLine("completed", completed),
     SummaryLine("failed", failed),
     SummaryLine("cancelled", cancelled),
     SummaryLine("incomplete", incomplete) >>

(* The number of entries of seq that are in S, counted entry by entry *)
RECURSIVE Tally(_, _)
Tally(seq, S) ==
  IF seq = <<>> THEN 0
  ELSE (IF Head(seq) \in S THEN 1 ELSE 0) + Tally(Tail(seq), S)

Stuck(id) == remote[id].state \in {"READY", "RUNNING"}

(* C6: wait_for_tasks with N >= 2 identifiers, identical or distinct, whose *)
(* tasks are never in a terminal state can always go on until it ends, and  *)
(* when it has returned the console ends with the five whole lines of the   *)
(* summary 0 completed, 0 failed, 0 cancelled, N incomplete.                *)
C6_StuckTasksAreAllIncomplete ==
  (entry = "wait_for_tasks" /\ Len(task_id_list) >= 2
     /\ \A k \in Workers : Stuck(task_id_list[k])) =>
    /\ mpc = "returned" =>
         /\ SummaryBlock = SummaryOf(0, 0, 0, Len(task_id_list))
         /\ SubSeq(out, Len(out) - 9, Len(out)) = Writes(SummaryBlock)
    /\ mpc \notin {"returned", "raised"} => ENABLED Next

(* Two waits, one for twice the same stuck task and one for two stuck       *)
(* tasks, with timeout 5: each worker timed out and the summary is out.     *)
C6_Witness ==
  /\ mpc = "returned" /\ Len(task_id_list) = 2 /\ timeout = 5
  /\ \A k \in Workers : Stuck(task_id_list[k]) /\ Printed(k, {"timeout"}) # <<>>
  /\ SummaryBlock = SummaryOf(0, 0, 0, 2)

(* C7: at most one bulk fetch is issued; the summary is printed exactly     *)
(* when wait_for_tasks returns from its multi-task path, from the statuses  *)
(* of one bulk fetch over the whole list: the completed, failed and         *)
(* cancelled counts are the numbers of statuses in those states, the        *)
(* incomplete count is the number of statuses in any other state, it is     *)
(* the total less the three and not negative, and the four add up to the    *)
(* number of identifiers.                                                   *)
C7_SummaryTalliesOneBulkFetch ==
  LET n == Len(task_id_list)
      completed == Tally(status_list, {"COMPLETED"})
      failed == Tally(status_list, {"FAILED"})
      cancelled == Tally(status_list, {"CANCELLED"})
      incomplete == Tally(status_list, {"READY", "RUNNING"})
  IN  /\ nbulk <= 1
      /\ SummaryBlock # <<>> <=> (mpc = "returned" /\ entry = "wait_for_tasks" /\ n # 1)
      /\ SummaryBlock # <<>> =>
           /\ nbulk = 1
           /\ Len(status_list) = n
           /\ \A k \in 1..n : status_list[k] = remote[task_id_list[k]].state
           /\ SummaryBlock = SummaryOf(completed, failed, cancelled, incomplete)
           /\ incomplete = n - completed - failed - cancelled
           /\ incomplete >= 0
           /\ completed + failed + cancelled + incomplete = n

(* A summary that counts two tasks completed, and one that counts a failed  *)
(* task and a task still READY.                                             *)
C7_Witness ==
  \/ SummaryBlock = SummaryOf(2, 0, 0, 0)
  \/ /\ SummaryBlock = SummaryOf(0, 1, 0, 1)
     /\ \E k \in Workers : status_list[k] = "READY"

(* C8: wait_for_tasks with exactly one identifier runs wait_for_task on the *)
(* calling thread with that identifier and its own timeout and log-progress *)
(* arguments, ends as that call ends, prints nothing but that call's        *)
(* reports, starts no worker, issues no bulk fetch and prints no summary.   *)
C8_OneIdentifierDelegates ==
  (entry = "wait_for_tasks" /\ Len(task_id_list) = 1) =>
    /\ mpc \in {"call", "in_task", "returned", "raised"}
    /\ mpc # "call" =>
         /\ Called(0)
         /\ frame[0].task_id = task_id_list[1]
         /\ frame[0].timeout = timeout
         /\ frame[0].log_progress = log_progress
    /\ mpc \in {"returned", "raised"} => mpc = frame[0].pc
    /\ \A t \in Threads \ {0} : ~Called(t)
    /\ nbulk = 0
    /\ SummaryBlock = <<>>
    /\ Emitted = Reports(0)
    /\ mpc = "returned" => out = Writes(Reports(0))

(* A delegated wait with log-progress on that slept once and timed out.     *)
C8_Witness ==
  /\ entry = "wait_for_tasks" /\ Len(task_id_list) = 1 /\ log_progress
  /\ mpc = "returned"
  /\ frame[0].nsleep >= 1
  /\ Printed(0, {"timeout"}) # <<>>

(* C9, as stated: when a status fetch has failed in a call of wait_for_task,*)
(* made directly or by a worker of wait_for_tasks, the wait operation does  *)
(* not return normally to its caller.                                       *)
C9_FetchFailureSurfaces ==
  mpc = "returned" => \A t \in Threads : frame[t].pc # "raised"

(* The scenario of C10: a direct call with timeout 30 has returned, and its *)
(* task became COMPLETED 5 seconds after the call.                          *)
Scenario10 ==
  /\ entry = "wait_for_task" /\ timeout = 30
  /\ doneAt[task_id_list[1]] = frame[0].start + Seconds(5)
  /\ remote[task_id_list[1]].state = "COMPLETED"
  /\ mpc = "returned"

(* C10, as stated, read in its favour for fetches that take no time: in the *)
(* scenario the call has printed one completion line with an elapsed time   *)
(* of about 5 seconds and no timeout line.                                  *)
C10_ReportsAboutFiveSeconds ==
  (Scenario10 /\ frame[0].fetchTime = 0) =>
    /\ Len(Printed(0, {"ended"})) = 1
    /\ Printed(0, {"ended"})[1].elapsed \in Hundredths(Seconds(4))..Hundredths(Seconds(6))
    /\ Printed(0, {"timeout"}) = <<>>

(* C10, amended: in that scenario the call prints exactly one completion    *)
(* line and no timeout line; the elapsed time it reports is the time from   *)
(* the call to the start of the poll that saw COMPLETED, whatever the       *)
(* fetches and the sleeps took.  That is never a time between 0 and 10      *)
(* seconds: it is 0 when the first fetch was still blocked at the           *)
(* completion, and otherwise, the first sleep being one of 10 seconds, at   *)
(* least 10 seconds; with fetches that take no time the poll is the second  *)
(* one and the time is 10 seconds plus the time by which the one sleep      *)
(* before it was over later than asked.                                     *)
C10_ReportsThePollThatSawCompletion ==
  Scenario10 =>
    /\ Reports(0) = <<EndedLine(0, task_id_list[1], "COMPLETED", frame[0].elapsed)>>
    /\ frame[0].elapsed = 0 \/ frame[0].elapsed >= Seconds(PollInterval)
    /\ frame[0].elapsed = 0 =>
         frame[0].nfetch = 1 /\ frame[0].nsleep = 0 /\ frame[0].fetchTime >= Seconds(5)
    /\ frame[0].elapsed > 0 => frame[0].slept >= Seconds(PollInterval)
    /\ frame[0].fetchTime = 0 =>
         /\ frame[0].nfetch = 2
         /\ frame[0].nsleep = 1
         /\ frame[0].elapsed = Seconds(PollInterval) + frame[0].overslept

(* The scenario with fetches that took no time and a sleep over 30 ms late: *)
(* polls at 0 and at 10.03 seconds, the line says 10.03 seconds.            *)
C10_Witness ==
  /\ Scenario10
  /\ frame[0].fetchTime = 0
  /\ frame[0].overslept = 300
  /\ frame[0].elapsed = Seconds(10) + 300
  /\ Printed(0, {"ended"}) = <<EndedLine(0, "a", "COMPLETED", Seconds(10) + 300)>>
  /\ Printed(0, {"ended"})[1].elapsed = 1003

(* C11, as stated: a sleep between two polls lasts min(10, remaining)       *)
(* seconds with remaining = timeout - elapsed > 0, so at most 10 seconds,   *)
(* and the call never wakes from a sleep later than start + timeout.        *)
C11_NeverOversleepsTheDeadline ==
  \A t \in Threads :
    frame[t].pc = "sleeping" =>
      /\ Remaining(frame[t].timeout, frame[t].elapsed) > 0
      /\ frame[t].slept <= frame[t].nsleep * Seconds(PollInterval)
      /\ frame[t].ready <= frame[t].start + Seconds(frame[t].timeout)


-----------------------------------------------------------------------------
(* C12: the path CommandLineConfig resolves is the config_file argument if  *)
(* one is given (an argument of None or of the empty string gives none),    *)
(* else the value of EE_CONFIG_FILE if that variable is set, else           *)
(* ~/.config/earthengine/credentials, whether or not a file exists at any   *)
(* of them; and the path save opens for writing is that resolved path,      *)
(* where after a save that succeeded a JSON object is found.                *)
C12_ResolvedPathFollowsPriority ==
  LET resolved == IF arg \notin {None, Str("")} THEN arg
                  ELSE IF environ # None THEN environ
                  ELSE Str("~/.config/earthengine/credentials")
  IN  /\ cpc # "start" => self.config_file = resolved
      /\ cpc \in {"saved", "save_raised"} => written = resolved
      /\ cpc = "saved" => files[resolved].kind = "json"

(* One of the combinations, after a save: no argument, the variable set     *)
(* and a default file present; the file named by the variable is written.   *)
C12_Witness ==
  /\ cpc = "saved"
  /\ arg = None /\ environ = Str("/env/credentials")
  /\ files[DEFAULT_EE_CONFIG_FILE].kind = "json"
  /\ written = Str("/env/credentials")
  /\ files[Str("/env/credentials")].kind = "json"

(* C13: when a configuration has been saved and a configuration is then     *)
(* loaded from the same path, the load succeeds and every field that was    *)
(* not None in the saved configuration has the same value in the loaded     *)
(* one; a field that was None was not written and has its built-in default. *)
C13_SaveThenLoadKeepsNonNullFields ==
  (saved.alive /\ cpc \in {"constructed", "construct_raised"}
     /\ self.config_file = saved.config_file) =>
    /\ cpc = "constructed"
    /\ \A key \in Keys :
         /\ saved[key] # None => self[key] = saved[key]
         /\ saved[key] = None => self[key] = CONFIG_PARAMS[key]
    /\ \A key \in DOMAIN files[self.config_file].members :
         files[self.config_file].members[key].type # "null"

(* A configuration with an empty refresh token, a changed account and no    *)
(* url was saved and loaded again: the url is the built-in one.             *)
C13_Witness ==
  /\ cpc = "constructed" /\ saved.alive /\ self.config_file = saved.config_file
  /\ nset = 2
  /\ saved.url = None /\ self.url = Str("https://earthengine.googleapis.com")
  /\ saved.refresh_token = Str("") /\ self.refresh_token = Str("")

(* C14: ee_init calls ee.Initialize exactly once, with the url of the       *)
(* configuration and with service-account credentials of its account and    *)
(* private key when both are present (not None, not empty), otherwise with  *)
(* refresh-token credentials of its refresh token when that is present,     *)
(* otherwise with 'persistent'; no other operation calls it.                *)
C14_OneStrategyByPriority ==
  LET present(value) == value \notin {None, Str("")}
      kind == IF present(self.account) /\ present(self.private_key)
              THEN "ServiceAccountCredentials"
              ELSE IF present(self.refresh_token) THEN "OAuth2Credentials"
              ELSE "persistent"
  IN  IF cpc \in {"initialized", "initialize_raised"}
      THEN /\ Len(initialized) = 1
           /\ initialized[1].opt_url = self.url
           /\ initialized[1].credentials.kind = kind
           /\ kind = "ServiceAccountCredentials" =>
                /\ initialized[1].credentials.account = self.account
                /\ initialized[1].credentials.private_key = self.private_key
           /\ kind = "OAuth2Credentials" =>
                initialized[1].credentials.refresh_token = self.refresh_token
      ELSE initialized = <<>>

(* A session initialized from the refresh token although a private key is   *)
(* present, there being no account.                                         *)
C14_Witness ==
  /\ cpc = "initialized"
  /\ self.account = None /\ self.private_key = Str("key.pem")
  /\ initialized[1].credentials = OAuth2Credentials(Str("1/tok"))

(* C15, as stated: a call of wait_for_task prints a progress line only with *)
(* log_progress on, only for a poll that saw a non-terminal state, the      *)
(* first one at least 30 seconds after the start of the wait and each       *)
(* further one at least 30 seconds after the one before, by the times of    *)
(* day the lines show.                                                      *)
C15_ProgressLinesThirtySecondsApart ==
  \A t \in Threads :
    LET progress == Printed(t, {"progress"})
    IN  /\ ~frame[t].log_progress => progress = <<>>
        /\ \A k \in DOMAIN progress :
             /\ progress[k].state \notin {"COMPLETED", "FAILED", "CANCELLED"}
             /\ progress[k].at - ClockSeconds(frame[t].start) >= ProgressInterval
        /\ \A k \in 1..(Len(progress) - 1) :
             progress[k + 1].at - progress[k].at >= ProgressInterval

(* What C16 says of the workers but for the state they share: with N >= 2   *)
(* identifiers wait_for_task runs on N worker threads and not on the        *)
(* calling thread, the k-th worker on the k-th entry of the list (equal     *)
(* entries have a worker each) with the timeout and log-progress flag of    *)
(* the call.  No worker is cut short: one that has returned wrote exactly   *)
(* one final report, each of its texts and its end of line, after a poll    *)
(* that saw a terminal state or was taken at elapsed >= timeout, and a      *)
(* worker ends otherwise only when a status fetch failed.                   *)
OneWorkerPerEntry ==
  (entry = "wait_for_tasks" /\ Len(task_id_list) >= 2) =>
    /\ ~Called(0)
    /\ \A t \in Threads \ {0} :
         Called(t) => /\ t \in Workers
                      /\ frame[t].task_id = task_id_list[t]
                      /\ frame[t].timeout = timeout
                      /\ frame[t].log_progress = log_progress
    /\ mpc = "spawn" => \A k \in Workers : Called(k) <=> k < i
    /\ mpc \notin {"call", "spawn"} => \A k \in Workers : Called(k)
    /\ \A k \in Workers :
         /\ frame[k].pc = "returned" =>
              /\ Len(Printed(k, {"ended", "timeout"})) = 1
              /\ EndsOfLine(k) = Texts(k)
              /\ \/ frame[k].state \in {"COMPLETED", "FAILED", "CANCELLED"}
                 \/ frame[k].elapsed >= Seconds(frame[k].timeout)
         /\ frame[k].pc = "raised" => nfail >= 1

(* The reports of the workers are on the console as the workers wrote them: *)
(* every text is followed at once by the end of line of the same print      *)
(* call, as it is when the threads have no stream in common.                *)
ReportsAreWholeLines ==
  \A j \in 1..(Len(out) - 1) :
    out[j].kind # "newline" => out[j + 1] = Newline(out[j].by)

C17_WorkerFetchFailureIsIsolated ==
  (entry = "wait_for_tasks" /\ Len(task_id_list) >= 2
     /\ \E k \in Workers : frame[k].pc = "raised") =>
    /\ \A k \in Workers :
         /\ frame[k].pc = "raised" => Printed(k, {"ended", "timeout"}) = <<>>
         /\ frame[k].pc = "returned" =>
              /\ Len(Printed(k, {"ended", "timeout"})) = 1
              /\ \/ frame[k].state \in {"COMPLETED", "FAILED", "CANCELLED"}
                 \/ frame[k].elapsed >= Seconds(frame[k].timeout)
    /\ mpc \notin {"returned", "raised"} => ENABLED Next
    /\ mpc = "raised" => nbulk = 1
    /\ mpc = "returned" =>
         /\ nbulk = 1
         /\ Len(status_list) = Len(task_id_list)
         /\ SummaryBlock = Summary(status_list)
         /\ SubSeq(out, Len(out) - 9, Len(out)) = Writes(SummaryBlock)

(* The first worker's second poll failed; the second worker slept, polled   *)
(* again and timed out; the summary is out.                                 *)
C17_Witness ==
  /\ mpc = "returned" /\ Len(task_id_list) = 2
  /\ frame[1].pc = "raised" /\ frame[1].nfetch = 2
  /\ frame[2].pc = "returned" /\ frame[2].nsleep >= 1 /\ Printed(2, {"timeout"}) # <<>>
  /\ SummaryBlock # <<>>

(* The number shown on the summary line of the given kind *)
SummaryCount(kind) == SelectSeq(SummaryBlock, LAMBDA l : l.kind = kind)[1].count

(* The number of workers that printed a line of the given kind *)
WorkersThatPrinted(kind) == Cardinality({k \in Workers : Printed(k, {kind}) # <<>>})

(* C18: when wait_for_tasks with N >= 2 identifiers has returned and no     *)
(* status fetch failed, the incomplete count of the summary is at most the  *)
(* number of workers that printed a timeout line, and the completed,        *)
(* failed and cancelled counts add up to at least the number of workers     *)
(* that printed a completion line (a terminal state is final, and the       *)
(* summary comes from a fetch made after every worker's last poll).         *)
C18_SummaryBoundsWorkerReports ==
  (entry = "wait_for_tasks" /\ Len(task_id_list) >= 2 /\ mpc = "returned" /\ nfail = 0) =>
    /\ SummaryCount("incomplete") <= WorkersThatPrinted("timeout")
    /\ SummaryCount("completed") + SummaryCount("failed") + SummaryCount("cancelled")
         >= WorkersThatPrinted("ended")
    /\ WorkersThatPrinted("timeout") + WorkersThatPrinted("ended") = Len(task_id_list)

(* Two workers timed out, and the summary counts one of their tasks as      *)
(* completed and the other as incomplete.                                   *)
C18_Witness ==
  /\ entry = "wait_for_tasks" /\ mpc = "returned" /\ nfail = 0
  /\ Len(task_id_list) = 2
  /\ WorkersThatPrinted("timeout") = 2
  /\ SummaryBlock = SummaryOf(1, 0, 0, 1)

(* What C19 says of a direct call whose task entered a terminal state at a  *)
(* time t after the call began, but for the time from t to the first poll   *)
(* at or after t: no poll taken at or after t left the call waiting, and    *)
(* the call returns from the first of them with the completion report as    *)
(* its last output.  And whatever the task does, a timeout line is written  *)
(* only as the last line of the call, after a poll taken at                 *)
(* elapsed >= timeout that saw a non-terminal state.                        *)
FirstPollAfterCompletionReports ==
  LET f == frame[0]
      t == doneAt[task_id_list[1]]
      polled == f.start + f.elapsed
  IN  /\ (t # Never /\ f.pc = "sleeping") => polled < t
      /\ (t # Never /\ f.pc = "returned") =>
           /\ polled >= t
           /\ f.state \in {"COMPLETED", "FAILED", "CANCELLED"}
           /\ Len(Reports(0)) >= Len(ExpectedCompletion(0))
           /\ SubSeq(Reports(0), Len(Reports(0)) - Len(ExpectedCompletion(0)) + 1,
                     Len(Reports(0))) = ExpectedCompletion(0)
           /\ Printed(0, {"timeout"}) = <<>>
      /\ Printed(0, {"timeout"}) # <<>> =>
           /\ f.pc \in {"printing", "returned"}
           /\ f.pc = "printing" => f.todo = <<Newline(0)>>
           /\ f.state \in {"READY", "RUNNING"}
           /\ f.elapsed >= Seconds(f.timeout)

(* C19, as stated: in a direct call of wait_for_task whose status fetches   *)
(* neither fail nor take time, and whose task entered a terminal state at a *)
(* time t after the call began, the first poll at or after t is taken at    *)
(* most 10 seconds after t and the call returns from it with the completion *)
(* report; a timeout line is printed only on return from a poll taken at    *)
(* elapsed >= timeout that saw a non-terminal state.                        *)
C19_CompletionSeenWithinTenSeconds ==
  (entry = "wait_for_task" /\ nfail = 0 /\ frame[0].fetchTime = 0) =>
    LET f == frame[0]
        t == doneAt[task_id_list[1]]
        polled == f.start + f.elapsed
    IN  /\ (t # Never /\ f.pc \in {"fetching", "printing", "returned"} /\ polled >= t) =>
             polled - t <= Seconds(10)
        /\ FirstPollAfterCompletionReports

(* C19, amended: in such a call the first poll at or after t is taken less  *)
(* than 10 seconds after t plus the time by which the one sleep before that *)
(* poll was over later than asked (time.sleep suspends for at least the     *)
(* time asked); the rest is as stated.                                      *)
C19_CompletionSeenWithinTenSecondsOfSleep ==
  (entry = "wait_for_task" /\ nfail = 0 /\ frame[0].fetchTime = 0) =>
    LET f == frame[0]
        t == doneAt[task_id_list[1]]
        polled == f.start + f.elapsed
    IN  /\ (t # Never /\ f.pc \in {"fetching", "printing", "returned"} /\ polled >= t) =>
             polled - t < Seconds(10) + f.overslept
        /\ FirstPollAfterCompletionReports

(* The task failed 0.1 ms into a wait with timeout 30 whose first sleep was *)
(* over 30 ms late; the second poll, 10.0299 seconds after the failure,     *)
(* reported it.                                                             *)
C19_Witness ==
  /\ entry = "wait_for_task" /\ nfail = 0 /\ frame[0].fetchTime = 0
  /\ timeout = 30
  /\ doneAt["a"] = frame[0].start + 1
  /\ frame[0].pc = "returned" /\ frame[0].nfetch = 2 /\ frame[0].overslept = 300
  /\ frame[0].start + frame[0].elapsed - doneAt["a"] = Seconds(10) + 299
  /\ Printed(0, {"ended"}) = <<EndedLine(0, "a", "FAILED", Seconds(10) + 300)>>
  /\ Printed(0, {"error"}) # <<>>

(* C20: wait_for_tasks with an empty list never runs wait_for_task, on the  *)
(* calling thread or on a worker; its start and join loops pass without     *)
(* waiting, it issues one bulk status fetch, and when that has returned the *)
(* whole output is the five lines of the summary with 0 completed, 0 failed, 0 cancelled and  *)
(* 0 incomplete; it ends otherwise only if that fetch fails.                *)
C20_EmptyListGivesEmptySummary ==
  (entry = "wait_for_tasks" /\ task_id_list = <<>>) =>
    /\ mpc # "in_task"
    /\ \A t \in Threads : ~Called(t)
    /\ mpc \in {"call", "spawn", "join"} => nbulk = 0 /\ now \in ClockStarts /\ ENABLED Next
    /\ mpc \in {"bulk", "returned", "raised"} => nbulk = 1
    /\ mpc = "bulk" => ENABLED Next
    /\ mpc = "raised" => nfail >= 1
    /\ mpc = "returned" =>
         /\ status_list = <<>>
         /\ out = Writes(SummaryOf(0, 0, 0, 0))

(* The call with the empty list has returned, its bulk fetch having taken   *)
(* time, and printed the summary of zeros.                                  *)
C20_Witness ==
  /\ entry = "wait_for_tasks" /\ task_id_list = <<>>
  /\ mpc = "returned" /\ nbulk = 1 /\ now > 0
  /\ SummaryBlock = SummaryOf(0, 0, 0, 0)

=============================================================================
